---- MODULE Spec2Model ----
(***************************************************************************)
(* The streaming chat consumer of the report page                          *)
(* (web/src/components/report/AIAnalystChat.tsx).                          *)
(*                                                                         *)
(* Text is a sequence of characters, the response body a sequence of       *)
(* bytes.  The server writes records  "data: " <json> "\n\n"  onto the     *)
(* wire of a call; the transport hands the consumer the bytes in reads of  *)
(* any size.  The JSON text of an envelope {type, payload} is written in a *)
(* short form  "{" <type letter> <escaped payload> "}"  that keeps what    *)
(* the consumer depends on: the braces (a record without its closing brace *)
(* does not parse), the type tag, and the escaping of line feeds inside a  *)
(* payload.                                                                *)
(*                                                                         *)
(* React state (messages, isLoading, input) is what the last render saw;   *)
(* the setState calls made since then wait in pendingUpdates and are       *)
(* applied, in call order, by the next render.                             *)
(***************************************************************************)
EXTENDS Integers, Sequences, FiniteSets, TLC

\* ------------------------------------------------------------------ bounds
MaxEvents == 2      \* records the server sends, over all requests
MaxRequests == 2    \* submits that pass the guard
MaxToasts == 2      \* toasts on the screen when a refused submit adds one

\* ------------------------------------------------------- characters, bytes
LF == "\n"
BS == "\\"
EAcute == "U+00E9"       \* the one two-byte character of the alphabet
LeadByte == "xC3"
ContByte == "xA9"
Replacement == "uFFFD"   \* what the decoder emits for an ill-formed sequence

Marker == <<"d", "a", "t", "a", ":", " ">>
Delimiter == <<LF, LF>>

errorMessage == <<"I'm sorry, I encountered an error. Please try again.">>
FailedResponse == "Failed to get chat response from server."
UnknownError == "An unknown error occurred."
SyntaxError == "Unexpected token"     \* the message of what JSON.parse throws
NetworkError == "network error"       \* the message of what reader.read() throws

\* ------------------------------------------------------------ UTF-8 coding
RECURSIVE Utf8Encode(_)
Utf8Encode(text) ==
    IF text = <<>> THEN <<>>
    ELSE (IF Head(text) = EAcute THEN <<LeadByte, ContByte>> ELSE <<Head(text)>>)
         \o Utf8Encode(Tail(text))

\* decoder.decode(value, { stream: true }): an incomplete sequence at the end
\* of value is kept in the decoder and completed by the next call.
RECURSIVE DecodeBytes(_, _, _)
DecodeBytes(pend, bytes, out) ==
    IF bytes = <<>> THEN [text |-> out, pending |-> pend]
    ELSE LET b == Head(bytes) IN
         IF pend # <<>>
         THEN IF b = ContByte
              THEN DecodeBytes(<<>>, Tail(bytes), Append(out, EAcute))
              ELSE DecodeBytes(<<>>, bytes, Append(out, Replacement))
         ELSE IF b = LeadByte THEN DecodeBytes(<<b>>, Tail(bytes), out)
         ELSE IF b = ContByte
              THEN DecodeBytes(<<>>, Tail(bytes), Append(out, Replacement))
         ELSE DecodeBytes(<<>>, Tail(bytes), Append(out, b))

\* Without { stream: true } every call stands alone: a lead byte at the end
\* of value is ill-formed.
DecodeStandalone(pend, bytes) ==
    LET r == DecodeBytes(<<>>, bytes, <<>>) IN
    [text |-> IF r.pending = <<>> THEN r.text ELSE Append(r.text, Replacement),
     pending |-> <<>>]

decode(pend, bytes) == DecodeBytes(pend, bytes, <<>>)

\* --------------------------------------------------------- String helpers
startsWithAnything(s, prefix) == TRUE

\* String.prototype.split('\n\n'): the segments between non-overlapping
\* occurrences of the delimiter, scanning left to right.
RECURSIVE SplitFrom(_, _, _)
SplitFrom(s, cur, acc) ==
    IF s = <<>> THEN Append(acc, cur)
    ELSE IF Len(s) >= 2 /\ SubSeq(s, 1, 2) = Delimiter
         THEN SplitFrom(SubSeq(s, 3, Len(s)), <<>>, Append(acc, cur))
         ELSE SplitFrom(Tail(s), Append(cur, Head(s)), acc)

split(s) == SplitFrom(s, <<>>, <<>>)

startsWith(s, prefix) ==
    Len(s) >= Len(prefix) /\ SubSeq(s, 1, Len(prefix)) = prefix

substring(s, from) == SubSeq(s, from + 1, Len(s))

\* String.prototype.trim for the blank character of the alphabet
RECURSIVE trimStart(_)
trimStart(s) ==
    IF s # <<>> /\ Head(s) \in {" ", LF} THEN trimStart(Tail(s)) ELSE s

RECURSIVE trimEnd(_)
trimEnd(s) ==
    IF s # <<>> /\ s[Len(s)] \in {" ", LF}
    THEN trimEnd(SubSeq(s, 1, Len(s) - 1)) ELSE s

trim(s) == trimEnd(trimStart(s))

RECURSIVE Concat(_)
Concat(texts) ==
    IF texts = <<>> THEN <<>> ELSE Head(texts) \o Concat(Tail(texts))

\* ------------------------------------------------------------------- JSON
RECURSIVE Escape(_)
Escape(text) ==
    IF text = <<>> THEN <<>>
    ELSE (CASE Head(text) = LF -> <<BS, "n">>
            [] Head(text) = BS -> <<BS, BS>>
            [] OTHER -> <<Head(text)>>) \o Escape(Tail(text))

\* the text of a string literal's inside, or "bad" for a raw line feed or a
\* broken escape
RECURSIVE Unescape(_, _)
Unescape(s, out) ==
    IF s = <<>> THEN [ok |-> TRUE, text |-> out]
    ELSE IF Head(s) = BS
         THEN IF Len(s) >= 2 /\ s[2] = "n"
              THEN Unescape(SubSeq(s, 3, Len(s)), Append(out, LF))
              ELSE IF Len(s) >= 2 /\ s[2] = BS
                   THEN Unescape(SubSeq(s, 3, Len(s)), Append(out, BS))
                   ELSE [ok |-> FALSE, text |-> <<>>]
         ELSE IF Head(s) = LF THEN [ok |-> FALSE, text |-> <<>>]
         ELSE Unescape(Tail(s), Append(out, Head(s)))

TypeLetter(type) ==
    CASE type = "chunk" -> "c"
      [] type = "source" -> "s"
      [] type = "error" -> "e"
      [] type = "complete" -> "k"

\* JSON.stringify({type, payload}) on the server.  A text payload is written
\* escaped; a source payload {title, url} as its two one-letter fields; a
\* complete envelope carries no payload.
JsonStringify(data) ==
    <<"{", TypeLetter(data.type)>>
    \o (CASE data.type = "source" -> <<data.payload.title, data.payload.url>>
          [] data.type = "complete" -> <<>>
          [] OTHER -> Escape(data.payload))
    \o <<"}">>

\* JSON.parse(text): [ok |-> FALSE] stands for the SyntaxError it throws.
\* payload is the empty text when the envelope has no payload member.
JsonParse(s) ==
    IF ~(Len(s) >= 3 /\ s[1] = "{" /\ s[Len(s)] = "}")
    THEN [ok |-> FALSE]
    ELSE LET inner == SubSeq(s, 3, Len(s) - 1) IN
         CASE s[2] = "c" \/ s[2] = "e" ->
                LET u == Unescape(inner, <<>>) IN
                IF u.ok
                THEN [ok |-> TRUE,
                      type |-> IF s[2] = "c" THEN "chunk" ELSE "error",
                      payload |-> u.text]
                ELSE [ok |-> FALSE]
           [] s[2] = "s" ->
                IF Len(inner) = 2
                THEN [ok |-> TRUE, type |-> "source",
                      payload |-> [title |-> inner[1], url |-> inner[2]]]
                ELSE [ok |-> FALSE]
           [] s[2] = "k" ->
                IF inner = <<>>
                THEN [ok |-> TRUE, type |-> "complete", payload |-> <<>>]
                ELSE [ok |-> FALSE]
           [] OTHER -> [ok |-> FALSE]

\* the truthiness test  data.payload  of the dispatcher: an object is truthy,
\* a missing payload and the empty string are not
Truthy(data) ==
    CASE data.type = "source" -> TRUE
      [] data.type = "complete" -> FALSE
      [] OTHER -> data.payload # <<>>

\* ------------------------------------------------------------- the server
\* What the chat endpoint may write as one record.
ChunkPayloads == {<<"a">>, <<EAcute, LF>>}
SourcePayloads == {[title |-> "T", url |-> "u"], [title |-> "V", url |-> "u"]}
ErrorPayloads == {<<"E">>}

Events ==
    [type : {"chunk"}, payload : ChunkPayloads]
    \cup [type : {"source"}, payload : SourcePayloads]
    \cup [type : {"error"}, payload : ErrorPayloads]
    \cup {[type |-> "complete"]}
    \cup {[type |-> "malformed"], [type |-> "comment"]}
    \cup [type : {"unterminated"}, payload : ChunkPayloads]

\* the text of one record:  data: <json>\n\n ; a malformed record lacks the
\* closing brace, a comment is a keep-alive segment without the marker, an
\* unterminated record is a chunk record without its delimiter
RecordText(ev) ==
    CASE ev.type = "malformed" -> Marker \o <<"{", "x">> \o Delimiter
      [] ev.type = "comment" -> <<":">> \o Delimiter
      [] ev.type = "unterminated" ->
           Marker \o JsonStringify([type |-> "chunk", payload |-> ev.payload])
      [] OTHER -> Marker \o JsonStringify(ev) \o Delimiter

Encode(ev) == Utf8Encode(RecordText(ev))

\* answer text with its end marker
TextEvents == {ev \in Events : ev.type \in {"chunk", "complete"}}

\* an answer that can fail: text, a server-signalled error, the end marker,
\* a record that does not parse
ChatEvents ==
    {[type |-> "chunk", payload |-> <<"a">>],
     [type |-> "error", payload |-> <<"E">>],
     [type |-> "complete"], [type |-> "malformed"]}

\* an answer grounded on web sources, two of them with the same url
SourceEvents ==
    [type : {"source"}, payload : SourcePayloads]
    \cup {[type |-> "chunk", payload |-> <<"a">>]}

\* a grounded answer that can fail
LogEvents ==
    {[type |-> "source", payload |-> [title |-> "T", url |-> "u"]],
     [type |-> "chunk", payload |-> <<"a">>],
     [type |-> "error", payload |-> <<"E">>]}

\* answer text among keep-alive segments, and a record cut short
NoiseEvents ==
    {[type |-> "comment"], [type |-> "chunk", payload |-> <<"a">>],
     [type |-> "unterminated", payload |-> <<"a">>]}

\* text or a server-signalled error
ShortEvents == {ev \in ChatEvents : ev.type \in {"chunk", "error"}}

\* the read sizes that end on a record's delimiter
RecordEnds(wire) ==
    {n \in 2..Len(wire) : SubSeq(wire, n - 1, n) = Delimiter}

\* the read sizes that end on a record's delimiter or take all that arrived
ReadSizes(wire) == RecordEnds(wire) \cup ({Len(wire)} \ {0})

\* ------------------------------------------------------------------ state
VARIABLES
    messages,        \* useState<Message[]>: the log as last rendered
    input,           \* useState(''): the text area's value
    isLoading,       \* useState(false)
    pendingUpdates,  \* setState calls not yet applied by a render
    calls,           \* the activations of handleSubmit, in start order
    toasts,          \* what toast.error has shown: [title, description]
    now,             \* Date.now()
    mounted,         \* the chat view is on the page
    parsedReport,    \* ReportView: the analysis of the report it is given
    uniqueSources,   \* ReportView: the sources it lists
    promptBox,       \* PromptInputBox: its state hooks as last rendered
    runs,            \* PromptInputBox: the activations of its handleSubmit
    drafts,          \* the draft reports the server has created so far
    cookies,         \* js-cookie: alloy_access_token, alloy_refresh_token
    accessToken,     \* AuthProvider: useState<string | null>
    user,            \* AuthProvider: useState<User | null>
    location,        \* window.location.href
    fetches          \* the activations of authedFetch, in start order

\* the report page's own state
reportView == <<parsedReport, uniqueSources>>

\* the report generator's state
generator == <<promptBox, runs, drafts>>

\* the authentication provider's state
auth == <<cookies, accessToken, user, location, fetches>>

vars == <<messages, input, isLoading, pendingUpdates, calls, toasts, now,
          mounted, reportView, generator, auth>>

Inputs == {<<" ">>, <<"q">>}
RejectCauses == {"Failed to fetch"}

\* { ...msg, <patch> }
Merge(msg, patch) ==
    [k \in DOMAIN msg \cup DOMAIN patch |->
        IF k \in DOMAIN patch THEN patch[k] ELSE msg[k]]

\* message.isStreaming as the render reads it (undefined is falsy)
IsStreaming(msg) == "isStreaming" \in DOMAIN msg /\ msg.isStreaming

\* prev.findIndex(m => m.id === id), 1-based, 0 when absent
RECURSIVE FindFrom(_, _, _)
FindFrom(prev, id, j) ==
    IF j > Len(prev) THEN 0
    ELSE IF prev[j].id = id THEN j ELSE FindFrom(prev, id, j + 1)

findIndex(prev, id) == FindFrom(prev, id, 1)

\* the item put in place of the element at the index
spliceOver(prev, j, item) ==
    SubSeq(prev, 1, j - 1) \o <<item>> \o SubSeq(prev, j + 1, Len(prev))

\* the item put after the element at the index
spliceAfter(prev, j, item) ==
    SubSeq(prev, 1, j) \o <<item>> \o SubSeq(prev, j + 1, Len(prev))

\* newMessages.splice(index, 0, item)
splice(prev, j, item) ==
    SubSeq(prev, 1, j - 1) \o <<item>> \o SubSeq(prev, j, Len(prev))

AppendChunk(msg, payload) == Merge(msg, [text |-> msg.text \o payload])
ShowError(msg, payload) == Merge(msg, [text |-> payload, sender |-> "error"])
FailMessageKeepsText(msg) ==
    Merge(msg, [isStreaming |-> FALSE, sender |-> "error"])
FailMessage(msg) ==
    Merge(msg, [text |-> errorMessage, isStreaming |-> FALSE, sender |-> "error"])
CompleteMessageKeepsFlag(msg) == msg
CompleteMessage(msg) == Merge(msg, [isStreaming |-> FALSE])

\* what a mapping updater makes of the message it addresses
UpdateMessage(msg, u) ==
    CASE u.op = "chunk" -> AppendChunk(msg, u.payload)
      [] u.op = "error" -> ShowError(msg, u.payload)
      [] u.op = "fail" -> FailMessage(msg)
      [] u.op = "done" -> CompleteMessage(msg)

\* the updater applied to every assistant message
MapMessageAnyBot(prev, u) ==
    [j \in 1..Len(prev) |->
        IF prev[j].sender = "bot" THEN UpdateMessage(prev[j], u) ELSE prev[j]]

\* prev.map(msg => msg.id === botMessageId ? { ...msg, ... } : msg)
MapMessage(prev, u) ==
    [j \in 1..Len(prev) |->
        IF prev[j].id = u.id THEN UpdateMessage(prev[j], u) ELSE prev[j]]

\* one queued updater applied to the state it finds
ApplyUpdate(st, u) ==
    CASE u.op = "append" ->
           [st EXCEPT !.messages = Append(@, u.msg)]
      [] u.op \in {"chunk", "error", "fail", "done"} ->
           [st EXCEPT !.messages = MapMessage(@, u)]
      [] u.op = "sources" ->
           LET botMsgIndex == findIndex(st.messages, u.id) IN
           IF botMsgIndex > 0
           THEN [st EXCEPT !.messages = splice(@, botMsgIndex,
                    [id |-> u.systemId, sender |-> "system", text |-> <<>>,
                     sources |-> u.sources])]
           ELSE st
      [] u.op = "setIsLoading" ->
           [st EXCEPT !.isLoading = u.value]
      [] u.op = "setInput" ->
           [st EXCEPT !.input = u.value]

\* the queue run from its last updater back to its first
RECURSIVE ApplyAllLastFirst(_, _)
ApplyAllLastFirst(st, queue) ==
    IF queue = <<>> THEN st
    ELSE ApplyUpdate(ApplyAllLastFirst(st, Tail(queue)), Head(queue))

\* a render: the queued updaters run in the order they were queued
RECURSIVE ApplyAll(_, _)
ApplyAll(st, queue) ==
    IF queue = <<>> THEN st
    ELSE ApplyAll(ApplyUpdate(st, Head(queue)), Tail(queue))

Rendered == [messages |-> messages, isLoading |-> isLoading, input |-> input]

\* the state the next render will show
Settled == ApplyAll(Rendered, pendingUpdates)

\* ------------------------------------------------- handleSubmit, the loop
\* The body of  for (const line of lines)  for one record text; acc carries
\* the setMessages calls made, sourceList, and whether JSON.parse threw.
OnData(data, botMessageId, acc) ==
    IF data.type = "source" /\ Truthy(data)
    THEN [acc EXCEPT !.sourceList = Append(@, data.payload)]
    ELSE IF data.type = "chunk" /\ Truthy(data)
    THEN [acc EXCEPT !.updates =
             Append(@, [op |-> "chunk", id |-> botMessageId,
                        payload |-> data.payload])]
    ELSE IF data.type = "error" /\ Truthy(data)
    THEN [acc EXCEPT !.updates =
             Append(@, [op |-> "error", id |-> botMessageId,
                        payload |-> data.payload])]
    ELSE acc

RECURSIVE ForLines(_, _, _)
ForLines(lines, botMessageId, acc) ==
    IF lines = <<>> THEN acc
    ELSE LET line == Head(lines)
             seen == [acc EXCEPT !.handled = @ + 1]
         IN  IF ~startsWith(line, Marker)
             THEN ForLines(Tail(lines), botMessageId, seen)
             ELSE LET data == JsonParse(substring(line, 6)) IN
                  IF ~data.ok
                  THEN [seen EXCEPT !.threw = TRUE]
                  ELSE ForLines(Tail(lines), botMessageId,
                                OnData(data, botMessageId, seen))

\* lines = accumulatedData.split('\n\n'); accumulatedData = lines.pop() || ""
RestDropped(segments) == <<>>
Rest(segments) == segments[Len(segments)]
CompleteAll(segments) == segments
Complete(segments) == SubSeq(segments, 1, Len(segments) - 1)

\* catch (error): the toast and the failure updater
CatchToast(message) ==
    [title |-> "Chat Error",
     description |-> IF message = "" THEN UnknownError ELSE message]
CatchUpdatesNone(botMessageId) == <<>>
CatchUpdates(botMessageId) == <<[op |-> "fail", id |-> botMessageId]>>

\* finally
FinallyKeepsLoading(botMessageId) == <<[op |-> "done", id |-> botMessageId]>>
FinallyUpdates(botMessageId) ==
    <<[op |-> "setIsLoading", value |-> FALSE],
      [op |-> "done", id |-> botMessageId]>>

\* after the loop: the system message for the sources found
SourceUpdates(botMessageId, sourceList, systemId) ==
    IF Len(sourceList) > 0
    THEN <<[op |-> "sources", id |-> botMessageId, sources |-> sourceList,
            systemId |-> systemId]>>
    ELSE <<>>

Running(i) == calls[i].pc \in {"fetch", "read"}
RECURSIVE SumSent(_)
SumSent(i) == IF i = 0 THEN 0 ELSE Len(calls[i].sent) + SumSent(i - 1)
EventsSent == SumSent(Len(calls))

\* ------------------------------------------------------------- ReportView
MaxSources == 3     \* sources in a report's analysis, over all its lists

SourceFields ==
    <<"acquirer_sources", "target_sources", "search_sources",
      "acquirer_culture_sources", "target_culture_sources",
      "acquirer_financial_sources", "target_financial_sources">>

ReportSources == SourcePayloads \cup {[title |-> "T", url |-> "v"]}

\* an analysis none of whose source lists is present
NoLists == [field \in {} |-> <<>>]

\* parsedReport.analysis?.<field> || []
OrEmpty(analysis, field) ==
    IF field \in DOMAIN analysis THEN analysis[field] ELSE <<>>

\* allSources: the seven lists spread into one
AllSources(analysis) ==
    Concat([k \in 1..Len(SourceFields) |-> OrEmpty(analysis, SourceFields[k])])

\* a set that lets one repeated item through
RECURSIVE SetFromDropOne(_, _)
SetFromDropOne(items, out) ==
    IF items = <<>> THEN out
    ELSE IF \E k \in 1..Len(out) : out[k] = Head(items)
         THEN out \o Tail(items)
         ELSE SetFromDropOne(Tail(items), Append(out, Head(items)))

\* Array.from(new Set(items)): the distinct items in insertion order
RECURSIVE SetFrom(_, _)
SetFrom(items, out) ==
    IF items = <<>> THEN out
    ELSE IF \E k \in 1..Len(out) : out[k] = Head(items)
         THEN SetFrom(Tail(items), out)
         ELSE SetFrom(Tail(items), Append(out, Head(items)))

\* the last entry with the url
RECURSIVE findLast(_, _)
findLast(list, url) ==
    IF list[Len(list)].url = url THEN list[Len(list)]
    ELSE findLast(SubSeq(list, 1, Len(list) - 1), url)

\* allSources.find(s => s.url === url), for a url that occurs
RECURSIVE find(_, _)
find(list, url) ==
    IF Head(list).url = url THEN Head(list) ELSE find(Tail(list), url)

\* Array.from(new Set(allSources.map(s => s.url)))
\*     .map(url => allSources.find(s => s.url === url)!)
UniqueSources(list) ==
    LET urls == SetFrom([k \in 1..Len(list) |-> list[k].url], <<>>)
    IN  [k \in 1..Len(urls) |-> find(list, urls[k])]

\* ------------------------------------------------- PromptInputBox: state
\* The state hooks of PromptInputBox after its first render and the effect
\* of that render: no draft yet (0 stands for null), the form empty, and
\* the request for a draft session under way.
BoxInit ==
    [draftReportId |-> 0,
     acquirer |-> <<>>, target |-> <<>>, notes |-> <<>>,
     logSteps |-> <<>>, sources |-> <<>>,
     isGenerating |-> FALSE,
     isCreatingDraft |-> TRUE,
     mounted |-> TRUE]

\* ---------------------------------------------------- AuthProvider: state
AccessCookie == "alloy_access_token"
RefreshCookie == "alloy_refresh_token"

\* A token is known by the payload it carries: the claims of a user, claims
\* without sub, or something that is not base64 JSON.
Token(serial, payload) == [serial |-> serial, payload |-> payload]

\* parseJwt: the decoded payload, null (<<>>) when decoding throws
parseJwt(token) ==
    CASE token.payload = "claims" -> <<[sub |-> "a@b.c", full_name |-> "A"]>>
      [] token.payload = "nosub" -> <<[full_name |-> "A"]>>
      [] OTHER -> <<>>

\* { email: decodedToken.sub, full_name: decodedToken.full_name }
UserOf(decodedToken) ==
    [email |-> IF "sub" \in DOMAIN decodedToken THEN decodedToken.sub
               ELSE "undefined",
     full_name |-> decodedToken.full_name]

\* Cookies.get(name) is jar[name], <<>> standing for undefined
\* Cookies.set(name, value)
CookiesSet(jar, name, value) == [jar EXCEPT ![name] = <<value>>]

\* Cookies.remove(name)
CookiesRemove(jar, name) == [jar EXCEPT ![name] = <<>>]

\* A signed-in browser after the mount effect of AuthProvider: both cookies
\* set, the token and the user read from the access cookie.
AuthInit ==
    /\ cookies = [alloy_access_token |-> <<Token(0, "claims")>>,
                  alloy_refresh_token |-> <<Token(0, "refresh")>>]
    /\ accessToken = <<Token(0, "claims")>>
    /\ user = <<UserOf(parseJwt(Token(0, "claims"))[1])>>
    /\ location = "/dashboard"
    /\ fetches = <<>>

\* ---------------------------------------------------------------- actions
Init ==
    /\ messages = <<>>
    /\ input = <<>>
    /\ isLoading = FALSE
    /\ pendingUpdates = <<>>
    /\ calls = <<>>
    /\ toasts = <<>>
    /\ now = 1
    /\ mounted = TRUE
    /\ parsedReport = NoLists
    /\ uniqueSources = <<>>
    /\ promptBox = BoxInit
    /\ runs = <<>>
    /\ drafts = 0
    /\ AuthInit

CallIds == 1..Len(calls)

\* onChange of the text area
OnChange(v) ==
    /\ mounted
    /\ input' = v
    /\ UNCHANGED <<messages, isLoading, pendingUpdates, calls, toasts, now, mounted, reportView, generator, auth>>

\* the user types: the text area is disabled while isLoading
Typing(v) ==
    /\ ~isLoading
    /\ OnChange(v)

\* `user-${Date.now()}`, `bot-${Date.now()}`, `system-${Date.now()}`
UserId(t) == <<"user", t>>
BotIdUntimed(t) == <<"bot", 0>>
BotId(t) == <<"bot", t>>
SystemId(t) == <<"system", t>>

\* the guard of handleSubmit, on the state the handler's render closed over
SubmitGuardUnserialized(text, loading) == trim(text) # <<>>
SubmitGuard(text, loading) == trim(text) # <<>> /\ ~loading

\* the placeholder put in before the user message
SubmitUpdatesBotFirst(text, t) ==
    <<[op |-> "append",
       msg |-> [id |-> BotId(t), sender |-> "bot", text |-> <<>>,
                isStreaming |-> TRUE]],
      [op |-> "setInput", value |-> <<>>],
      [op |-> "setIsLoading", value |-> TRUE],
      [op |-> "append",
       msg |-> [id |-> UserId(t), sender |-> "user", text |-> text]]>>

\* what handleSubmit sets before its first await
SubmitUpdates(text, t) ==
    <<[op |-> "append",
       msg |-> [id |-> UserId(t), sender |-> "user", text |-> text]],
      [op |-> "setInput", value |-> <<>>],
      [op |-> "setIsLoading", value |-> TRUE],
      [op |-> "append",
       msg |-> [id |-> BotId(t), sender |-> "bot", text |-> <<>>,
                isStreaming |-> TRUE]]>>

\* the locals of an activation that awaits its fetch; sent and lines keep
\* what the server has written and what the line buffer has given the loop
NewCall(t) ==
    [pc |-> "fetch", botMessageId |-> BotId(t), sourceList |-> <<>>,
     accumulatedData |-> <<>>, decoder |-> <<>>, wire |-> <<>>,
     sent |-> <<>>, lines |-> <<>>, handled |-> 0, exit |-> "none",
     error |-> ""]

\* The form's submit event, or Enter in the text area: handleSubmit up to its
\* first await.  The guard reads the state the handler's render closed over.
\* The event is discrete, so what the handler sets is rendered when it yields.
Submit ==
    /\ mounted
    /\ IF ~SubmitGuard(input, isLoading)
       THEN UNCHANGED vars
       ELSE
         /\ Len(calls) < MaxRequests
         /\ LET after == ApplyAll(Rendered,
                             pendingUpdates \o SubmitUpdates(input, now))
            IN  /\ messages' = after.messages
                /\ input' = after.input
                /\ isLoading' = after.isLoading
         /\ pendingUpdates' = <<>>
         /\ calls' = Append(calls, NewCall(now))
         /\ now' = now + 1
         /\ UNCHANGED <<toasts, mounted, reportView, generator, auth>>

\* a render pass outside a user event; React drops what is set on a view
\* that is no longer mounted
Render ==
    /\ mounted
    /\ pendingUpdates # <<>>
    /\ messages' = Settled.messages
    /\ input' = Settled.input
    /\ isLoading' = Settled.isLoading
    /\ pendingUpdates' = <<>>
    /\ UNCHANGED <<calls, toasts, now, mounted, reportView, generator, auth>>

\* the activation is over: its locals are gone, the reader is released
Returned(c, how, message) ==
    [c EXCEPT !.pc = "returned", !.exit = how, !.error = message, !.wire = <<>>,
              !.accumulatedData = <<>>, !.decoder = <<>>, !.sourceList = <<>>]

\* the call leaves through catch and finally with the given error message
Fail(i, message) ==
    /\ toasts' = Append(toasts, CatchToast(message))
    /\ pendingUpdates' = pendingUpdates
           \o CatchUpdates(calls[i].botMessageId)
           \o FinallyUpdates(calls[i].botMessageId)
    /\ calls' = [calls EXCEPT ![i] = Returned(@, "caught", message)]
    /\ UNCHANGED <<messages, input, isLoading, now, mounted, reportView, generator, auth>>

\* await fetch(...) resolves with res.ok and a body
FetchOk(i) ==
    /\ calls[i].pc = "fetch"
    /\ calls' = [calls EXCEPT ![i].pc = "read"]
    /\ UNCHANGED <<messages, input, isLoading, pendingUpdates, toasts, now, mounted, reportView, generator, auth>>

\* it resolves with !res.ok or without a body
FetchNotOk(i) ==
    /\ calls[i].pc = "fetch"
    /\ Fail(i, FailedResponse)

\* it rejects
FetchReject(i, cause) ==
    /\ calls[i].pc = "fetch"
    /\ Fail(i, cause)

\* the server writes one record
ServerSend(i, ev) ==
    /\ calls[i].pc = "read"
    /\ EventsSent < MaxEvents
    /\ calls' = [calls EXCEPT ![i].wire = @ \o Encode(ev),
                              ![i].sent = Append(@, ev)]
    /\ UNCHANGED <<messages, input, isLoading, pendingUpdates, toasts, now, mounted, reportView, generator, auth>>

\* One pass of the while loop for a read that delivers the next n bytes.
\* decoded, lines and r are the pass's locals, each computed once.
Read(i, n) ==
    /\ calls[i].pc = "read"
    /\ n \in 1..Len(calls[i].wire)
    /\ \E decoded \in {decode(calls[i].decoder, SubSeq(calls[i].wire, 1, n))} :
       \E lines \in {split(calls[i].accumulatedData \o decoded.text)} :
       \E r \in {ForLines(Complete(lines), calls[i].botMessageId,
                          [updates |-> <<>>, sourceList |-> calls[i].sourceList,
                           threw |-> FALSE, handled |-> calls[i].handled])} :
          LET read == [calls[i] EXCEPT
                          !.wire = SubSeq(@, n + 1, Len(@)),
                          !.decoder = decoded.pending,
                          !.accumulatedData = Rest(lines),
                          !.lines = @ \o Complete(lines),
                          !.sourceList = r.sourceList,
                          !.handled = r.handled]
          IN  IF r.threw
              THEN /\ toasts' = Append(toasts, CatchToast(SyntaxError))
                   /\ pendingUpdates' = pendingUpdates \o r.updates
                          \o CatchUpdates(calls[i].botMessageId)
                          \o FinallyUpdates(calls[i].botMessageId)
                   /\ calls' = [calls EXCEPT ![i] =
                                   Returned(read, "caught", SyntaxError)]
              ELSE /\ pendingUpdates' = pendingUpdates \o r.updates
                   /\ calls' = [calls EXCEPT ![i] = read]
                   /\ UNCHANGED toasts
    /\ UNCHANGED <<messages, input, isLoading, now, mounted, reportView, generator, auth>>

\* the server ends the body and, every byte read, reader.read() reports
\* done: break, the sources, finally
ReadDone(i) ==
    /\ calls[i].pc = "read"
    /\ calls[i].wire = <<>>
    /\ pendingUpdates' = pendingUpdates
           \o SourceUpdates(calls[i].botMessageId, calls[i].sourceList,
                            SystemId(now))
           \o FinallyUpdates(calls[i].botMessageId)
    /\ calls' = [calls EXCEPT ![i] = Returned(@, "normal", "")]
    /\ UNCHANGED <<messages, input, isLoading, toasts, now, mounted, reportView, generator, auth>>

\* reader.read() rejects: the connection dropped
ReadThrow(i) ==
    /\ calls[i].pc = "read"
    /\ Fail(i, NetworkError)

\* The page leaves the chat view: AIAnalystChat registers no cleanup, so the
\* activations of handleSubmit go on as they are.
Unmount ==
    /\ mounted
    /\ mounted' = FALSE
    /\ UNCHANGED <<messages, input, isLoading, pendingUpdates, calls, toasts,
                   now, reportView, generator, auth>>

\* ReportView is rendered with a report whose analysis has one source more
ReportProps(field, s) ==
    /\ Len(AllSources(parsedReport)) < MaxSources
    /\ \E next \in {[f \in DOMAIN parsedReport \cup {field} |->
                        IF f = field
                        THEN Append(OrEmpty(parsedReport, field), s)
                        ELSE parsedReport[f]]} :
          /\ parsedReport' = next
          /\ uniqueSources' = UniqueSources(AllSources(next))
    /\ UNCHANGED <<messages, input, isLoading, pendingUpdates, calls, toasts,
                   now, mounted, generator, auth>>

\* The chat view against a transport that hands over whole records, one or
\* more per read, and a server whose answer can fail.
Next ==
    \/ \E v \in Inputs : Typing(v)
    \/ Submit
    \/ Render
    \/ \E i \in CallIds : FetchOk(i)
    \/ \E i \in CallIds : FetchNotOk(i)
    \/ \E i \in CallIds : \E cause \in RejectCauses : FetchReject(i, cause)
    \/ \E i \in CallIds : \E ev \in ChatEvents : ServerSend(i, ev)
    \/ \E i \in CallIds : \E n \in RecordEnds(calls[i].wire) : Read(i, n)
    \/ \E i \in CallIds : ReadDone(i)
    \/ \E i \in CallIds : ReadThrow(i)

Spec == Init /\ [][Next]_vars

\* Scheduling: a pending render runs, a fetch settles, bytes that arrived are
\* read, and the transport ends or fails.
Fairness ==
    /\ WF_vars(Render)
    /\ WF_vars(\E i \in CallIds :
                  \/ FetchOk(i)
                  \/ FetchNotOk(i)
                  \/ \E cause \in RejectCauses : FetchReject(i, cause))
    /\ WF_vars(\E i \in CallIds : \E n \in RecordEnds(calls[i].wire) : Read(i, n))
    /\ WF_vars(\E i \in CallIds : ReadDone(i) \/ ReadThrow(i))

FairSpec == Spec /\ Fairness

\* The same view when change events reach the text area although it is
\* disabled, so that only the guard of handleSubmit stands between a submit
\* and a second request.
AnyInputNext ==
    \/ \E v \in Inputs : OnChange(v)
    \/ Submit
    \/ Render
    \/ \E i \in CallIds : FetchOk(i)
    \/ \E i \in CallIds : FetchNotOk(i)
    \/ \E i \in CallIds : \E cause \in RejectCauses : FetchReject(i, cause)
    \/ \E i \in CallIds : \E ev \in ShortEvents : ServerSend(i, ev)
    \/ \E i \in CallIds : \E n \in RecordEnds(calls[i].wire) : Read(i, n)
    \/ \E i \in CallIds : ReadDone(i)
    \/ \E i \in CallIds : ReadThrow(i)

AnyInputSpec == Init /\ [][AnyInputNext]_vars

\* The chat view with web grounding: the server sends sources and text, and
\* the connection may drop.
SourceNext ==
    \/ \E v \in Inputs : Typing(v)
    \/ Submit
    \/ Render
    \/ \E i \in CallIds : FetchOk(i)
    \/ \E i \in CallIds : \E ev \in SourceEvents : ServerSend(i, ev)
    \/ \E i \in CallIds : \E n \in RecordEnds(calls[i].wire) : Read(i, n)
    \/ \E i \in CallIds : ReadDone(i)
    \/ \E i \in CallIds : ReadThrow(i)

SourceSpec == Init /\ [][SourceNext]_vars

\* The chat view with web grounding against a server whose answer can fail,
\* under the scheduling of FairSpec.
LogNext ==
    \/ \E v \in Inputs : Typing(v)
    \/ Submit
    \/ Render
    \/ \E i \in CallIds : FetchOk(i)
    \/ \E i \in CallIds : FetchNotOk(i)
    \/ \E i \in CallIds : \E cause \in RejectCauses : FetchReject(i, cause)
    \/ \E i \in CallIds : \E ev \in LogEvents : ServerSend(i, ev)
    \/ \E i \in CallIds : \E n \in RecordEnds(calls[i].wire) : Read(i, n)
    \/ \E i \in CallIds : ReadDone(i)
    \/ \E i \in CallIds : ReadThrow(i)

LogSpec == Init /\ [][LogNext]_vars /\ Fairness

\* One request at a time against a server that sends keep-alive segments
\* and may end the body inside a record.
NoiseNext ==
    \/ \E v \in Inputs : Typing(v)
    \/ Submit
    \/ Render
    \/ \E i \in CallIds : FetchOk(i)
    \/ \E i \in CallIds : \E ev \in NoiseEvents : ServerSend(i, ev)
    \/ \E i \in CallIds : \E n \in ReadSizes(calls[i].wire) : Read(i, n)
    \/ \E i \in CallIds : ReadDone(i)

NoiseSpec == Init /\ [][NoiseNext]_vars

\* The chat view of Spec on a page that may leave it at any moment.
UnmountNext ==
    \/ Next
    \/ Unmount

UnmountSpec == Init /\ [][UnmountNext]_vars

\* The report page, given reports of up to MaxSources sources.
ReportNext ==
    \E k \in 1..Len(SourceFields) : \E s \in ReportSources :
        ReportProps(SourceFields[k], s)

ReportSpec == Init /\ [][ReportNext]_vars

\* One request, submitted and awaiting its fetch.
ByteInit ==
    LET after == ApplyAll([messages |-> <<>>, isLoading |-> FALSE,
                           input |-> <<"q">>],
                          SubmitUpdates(<<"q">>, 1))
    IN  /\ messages = after.messages
        /\ input = after.input
        /\ isLoading = after.isLoading
        /\ pendingUpdates = <<>>
        /\ calls = <<NewCall(1)>>
        /\ toasts = <<>>
        /\ now = 2
        /\ mounted = TRUE
        /\ parsedReport = NoLists
        /\ uniqueSources = <<>>
        /\ promptBox = BoxInit
        /\ runs = <<>>
        /\ drafts = 0
        /\ AuthInit

\* the server writes the next record when no whole record is waiting
ServerSendNext(i, ev) ==
    /\ RecordEnds(calls[i].wire) = {}
    /\ ServerSend(i, ev)

\* That request against a transport that cuts the body anywhere, for a
\* server that sends answer text.
ByteNext ==
    \/ Render
    \/ \E i \in CallIds : FetchOk(i)
    \/ \E i \in CallIds : \E ev \in TextEvents : ServerSendNext(i, ev)
    \/ \E i \in CallIds : \E n \in 1..Len(calls[i].wire) : Read(i, n)
    \/ \E i \in CallIds : ReadDone(i)
    \/ \E i \in CallIds : ReadThrow(i)

ByteSpec == ByteInit /\ [][ByteNext]_vars

\* --------------------------------------------------- AuthProvider: model
\* the statuses the target endpoint answers with
Statuses == {200, 401, 500}

\* the access tokens the refresh endpoint hands out
FreshTokens == {Token(1, "claims"), Token(1, "garbled")}

\* everything but the authentication provider
nonAuth == <<messages, input, isLoading, pendingUpdates, calls, toasts, now,
             mounted, reportView, generator>>

\* what logout and refreshAccessToken work on
AuthState ==
    [cookies |-> cookies, accessToken |-> accessToken, user |-> user,
     location |-> location]

SetAuthState(st) ==
    /\ cookies' = st.cookies
    /\ accessToken' = st.accessToken
    /\ user' = st.user
    /\ location' = st.location

logoutKeepsRefreshCookie(st) ==
    [st EXCEPT !.user = <<>>,
               !.accessToken = <<>>,
               !.cookies = CookiesRemove(@, AccessCookie),
               !.location = "/login"]

logout(st) ==
    [st EXCEPT !.user = <<>>,
               !.accessToken = <<>>,
               !.cookies = CookiesRemove(CookiesRemove(@, AccessCookie),
                                         RefreshCookie),
               !.location = "/login"]

\* refreshAccessToken after an ok response that carries newAccessToken
Refreshed(st, newAccessToken) ==
    LET decodedToken == parseJwt(newAccessToken)
    IN  [st EXCEPT !.accessToken = <<newAccessToken>>,
                   !.user = IF decodedToken # <<>>
                            THEN <<UserOf(decodedToken[1])>>
                            ELSE @,
                   !.cookies = CookiesSet(@, AccessCookie, newAccessToken)]

\* One activation of authedFetch: sent lists the tokens of the target
\* requests it has sent, received the statuses of their responses.
NewFetch ==
    [pc |-> "start", sent |-> <<>>, received |-> <<>>, refreshes |-> 0,
     loggedOut |-> FALSE, result |-> "", status |-> 0, error |-> ""]

Rejected(f, error) ==
    [f EXCEPT !.pc = "returned", !.result = "rejected", !.error = error]

Resolved(f, status) ==
    [f EXCEPT !.pc = "returned", !.result = "response", !.status = status]

\* authedFetch up to its first await
AuthedFetch ==
    /\ Len(fetches) < MaxRequests
    /\ \E token \in {cookies[AccessCookie]} :
          IF token = <<>>
          THEN /\ SetAuthState(logout(AuthState))
               /\ fetches' = Append(fetches,
                      Rejected([NewFetch EXCEPT !.loggedOut = TRUE],
                               "User not authenticated"))
          ELSE /\ fetches' = Append(fetches,
                      [NewFetch EXCEPT !.pc = "first", !.sent = token])
               /\ UNCHANGED <<cookies, accessToken, user, location>>
    /\ UNCHANGED nonAuth

\* The first request is answered. On 401 refreshAccessToken runs up to its
\* fetch: without a refresh cookie it logs out and returns null, and
\* authedFetch throws.
FirstResponse(i, status) ==
    /\ fetches[i].pc = "first"
    /\ \E f \in {[fetches[i] EXCEPT !.received = Append(@, status)]} :
          IF status # 401
          THEN /\ fetches' = [fetches EXCEPT ![i] = Resolved(f, status)]
               /\ UNCHANGED <<cookies, accessToken, user, location>>
          ELSE IF cookies[RefreshCookie] = <<>>
          THEN /\ SetAuthState(logout(AuthState))
               /\ fetches' = [fetches EXCEPT
                     ![i] = Rejected([f EXCEPT !.loggedOut = TRUE],
                                     "Session expired")]
          ELSE /\ fetches' = [fetches EXCEPT
                     ![i] = [f EXCEPT !.pc = "refresh", !.refreshes = @ + 1]]
               /\ UNCHANGED <<cookies, accessToken, user, location>>
    /\ UNCHANGED nonAuth

\* a target request fails on the network: the await throws
TargetRejects(i) ==
    /\ fetches[i].pc \in {"first", "retry"}
    /\ fetches' = [fetches EXCEPT ![i] = Rejected(@, "Failed to fetch")]
    /\ UNCHANGED <<cookies, accessToken, user, location>>
    /\ UNCHANGED nonAuth

\* the refresh endpoint answers ok with a new access token: the token is
\* stored and the target request is sent again with it
RefreshOk(i, newAccessToken) ==
    /\ fetches[i].pc = "refresh"
    /\ SetAuthState(Refreshed(AuthState, newAccessToken))
    /\ fetches' = [fetches EXCEPT ![i].pc = "retry",
                                  ![i].sent = Append(@, newAccessToken)]
    /\ UNCHANGED nonAuth

\* the refresh request rejects, is answered with !res.ok, or its body is
\* not JSON: the catch block logs out and returns null
RefreshFails(i) ==
    /\ fetches[i].pc = "refresh"
    /\ SetAuthState(logout(AuthState))
    /\ fetches' = [fetches EXCEPT
          ![i] = Rejected([@ EXCEPT !.loggedOut = TRUE], "Session expired")]
    /\ UNCHANGED nonAuth

\* return fetch(url, ...): the retry's response is the result
RetryResponse(i, status) ==
    /\ fetches[i].pc = "retry"
    /\ fetches' = [fetches EXCEPT
          ![i] = Resolved([@ EXCEPT !.received = Append(@, status)], status)]
    /\ UNCHANGED <<cookies, accessToken, user, location>>
    /\ UNCHANGED nonAuth

\* a cookie reaches its expiry (one hour, seven days) and the browser drops it
CookieExpires(name) ==
    /\ cookies[name] # <<>>
    /\ cookies' = CookiesRemove(cookies, name)
    /\ UNCHANGED <<accessToken, user, location, fetches>>
    /\ UNCHANGED nonAuth

\* The provider with callers of authedFetch, the two endpoints and the
\* browser's cookie jar.
AuthNext ==
    \/ AuthedFetch
    \/ \E i \in 1..Len(fetches) : \E status \in Statuses : FirstResponse(i, status)
    \/ \E i \in 1..Len(fetches) : TargetRejects(i)
    \/ \E i \in 1..Len(fetches) : \E token \in FreshTokens : RefreshOk(i, token)
    \/ \E i \in 1..Len(fetches) : RefreshFails(i)
    \/ \E i \in 1..Len(fetches) : \E status \in Statuses : RetryResponse(i, status)
    \/ \E name \in {AccessCookie, RefreshCookie} : CookieExpires(name)

AuthSpec == Init /\ [][AuthNext]_vars

\* ------------------------------------------------- PromptInputBox: model
\* what the generation endpoint streams: the status of each step
StepStatuses == {"reasoning", "source", "complete", "error"}

\* what the user types into the form
FieldValues ==
    [acquirer |-> {<<"A", "c">>}, target |-> {<<"T", "g">>},
     notes |-> {<<"n">>}]

\* everything but the toasts and the generator
others == <<messages, input, isLoading, pendingUpdates, calls, now, mounted,
            reportView, auth>>

\* const isLoading = isCreatingDraft || isGenerating || <upload under way>
BoxIsLoading(box) == box.isCreatingDraft \/ box.isGenerating

canSubmit(box) == Len(trim(box.acquirer)) > 1 /\ Len(trim(box.target)) > 1

\* the guard of handleSubmit
GenerateBlocked(box) ==
    \/ BoxIsLoading(box)
    \/ box.draftReportId = 0
    \/ Len(trim(box.acquirer)) < 2
    \/ Len(trim(box.target)) < 2

\* the form's content
Form(box) == <<box.acquirer, box.target, box.notes>>
EmptyForm == <<<<>>, <<>>, <<>>>>

handleResetKeepsGenerating(box, resetId) ==
    [box EXCEPT !.logSteps = <<>>, !.sources = <<>>,
                !.acquirer = <<>>, !.target = <<>>, !.notes = <<>>,
                !.draftReportId = IF resetId THEN 0 ELSE @]

handleReset(box, resetId) ==
    [box EXCEPT !.isGenerating = FALSE,
                !.logSteps = <<>>, !.sources = <<>>,
                !.acquirer = <<>>, !.target = <<>>, !.notes = <<>>,
                !.draftReportId = IF resetId THEN 0 ELSE @]

\* The effect on [accessToken, draftReportId, triggerDraft, isGenerating]
\* after a render that changed one of them: without a draft and while not
\* generating it asks the server for a new draft.
DraftEffect(old, new) ==
    IF /\ <<old.draftReportId, old.isGenerating>> #
          <<new.draftReportId, new.isGenerating>>
       /\ new.draftReportId = 0
       /\ ~new.isGenerating
    THEN [new EXCEPT !.isCreatingDraft = TRUE]
    ELSE new

\* React applies the state updates of a handler and renders; an unmounted
\* component keeps the state it had.
Commit(old, new) == IF old.mounted THEN DraftEffect(old, new) ELSE old

\* const newStep = { id: `step-${Date.now()}-${Math.random()}`, ...jsonData }
NewStep(r, k, status) ==
    [id |-> <<r, k>>, status |-> status,
     message |-> IF status = "error" THEN "boom" ELSE ""]

SuccessToast ==
    [title |-> "Report generated successfully!", description |-> ""]
FailedToast(message) ==
    [title |-> "Generation Failed", description |-> message]
ErrorToast(message) ==
    [title |-> "An error occurred", description |-> message]
InvalidToast ==
    [title |-> "Invalid Input",
     description |-> "Please provide full, official brand names."]
SessionToast ==
    [title |-> "Could not start a new session.",
     description |-> "Please refresh the page."]

\* The state a pass of the read loop works on; handled lists the steps it
\* has passed to setSources or setLogSteps.
LoopState(box, run) ==
    [box |-> box, handled |-> run.handled, exit |-> run.exit,
     created |-> run.created, timer |-> run.timer, toasts |-> <<>>]

\* setSources(prev => [...prev, newStep]) or setLogSteps(prev => [...prev, newStep])
AppendStep(box, step) ==
    IF step.status = "source"
    THEN [box EXCEPT !.sources = Append(@, step)]
    ELSE [box EXCEPT !.logSteps = Append(@, step)]

\* the body of the for loop for one record that starts with 'data: '
OnStepNoReturn(st, step) ==
    LET appended == AppendStep(st.box, step)
        counted  == [st EXCEPT !.handled = Append(@, step)]
    IN  CASE step.status = "complete" ->
               [counted EXCEPT !.box = appended,
                               !.toasts = Append(@, SuccessToast),
                               !.created = @ + 1,
                               !.timer = "pending"]
          [] step.status = "error" ->
               [counted EXCEPT !.box = handleReset(appended, TRUE),
                               !.toasts = Append(@, FailedToast(step.message))]
          [] OTHER -> [counted EXCEPT !.box = appended]

OnStep(st, step) ==
    LET appended == AppendStep(st.box, step)
        counted  == [st EXCEPT !.handled = Append(@, step)]
    IN  CASE step.status = "complete" ->
               [counted EXCEPT !.box = appended,
                               !.toasts = Append(@, SuccessToast),
                               !.created = @ + 1,
                               !.timer = "pending",
                               !.exit = "complete"]
          [] step.status = "error" ->
               [counted EXCEPT !.box = handleReset(appended, TRUE),
                               !.toasts = Append(@, FailedToast(step.message)),
                               !.exit = "error"]
          [] OTHER -> [counted EXCEPT !.box = appended]

\* for (const line of lines) { ... return; ... }
RECURSIVE ForSteps(_, _, _)
ForSteps(st, r, statuses) ==
    IF statuses = <<>> \/ st.exit # ""
    THEN st
    ELSE ForSteps(OnStep(st, NewStep(r, Len(st.handled) + 1, Head(statuses))),
                  r, Tail(statuses))

NewRun(box) ==
    [pc |-> "fetch", draftReportId |-> box.draftReportId,
     wire |-> <<>>, sent |-> <<>>, handled |-> <<>>, exit |-> "",
     created |-> 0, timer |-> "none",
     abandoned |-> FALSE, overtaken |-> FALSE, wiped |-> EmptyForm]

RunIds == 1..Len(runs)

RECURSIVE SumSteps(_)
SumSteps(r) == IF r = 0 THEN 0 ELSE Len(runs[r].sent) + SumSteps(r - 1)

\* onChange of an input of the form; the form is rendered while not
\* generating and its inputs are disabled while isLoading
SetField(field, v) ==
    /\ promptBox.mounted
    /\ ~BoxIsLoading(promptBox)
    /\ promptBox[field] # v
    /\ promptBox' = Commit(promptBox, [promptBox EXCEPT ![field] = v])
    /\ UNCHANGED <<runs, drafts, toasts, others>>

\* triggerDraft(...).then(data => setDraftReportId(data.id))
DraftCreated ==
    /\ promptBox.isCreatingDraft
    /\ drafts' = drafts + 1
    /\ promptBox' =
          IF promptBox.mounted
          THEN DraftEffect(promptBox,
                           [promptBox EXCEPT !.draftReportId = drafts + 1,
                                             !.isCreatingDraft = FALSE])
          ELSE [promptBox EXCEPT !.isCreatingDraft = FALSE]
    /\ UNCHANGED <<runs, toasts, others>>

\* triggerDraft(...).catch(() => toast.error("Could not start a new session."))
DraftFailed ==
    /\ promptBox.isCreatingDraft
    /\ promptBox' = [promptBox EXCEPT !.isCreatingDraft = FALSE]
    /\ toasts' = Append(toasts, SessionToast)
    /\ UNCHANGED <<runs, drafts, others>>

\* A click on the submit button, which is disabled while isLoading or
\* without two names: handleSubmit up to its fetch.
Generate ==
    /\ promptBox.mounted
    /\ ~promptBox.isGenerating
    /\ ~BoxIsLoading(promptBox)
    /\ canSubmit(promptBox)
    /\ IF GenerateBlocked(promptBox)
       THEN /\ Len(toasts) < MaxToasts
            /\ toasts' = Append(toasts, InvalidToast)
            /\ UNCHANGED <<promptBox, runs>>
       ELSE /\ Len(runs) < MaxRequests
            /\ promptBox' = Commit(promptBox,
                                   [promptBox EXCEPT !.isGenerating = TRUE,
                                                     !.logSteps = <<>>,
                                                     !.sources = <<>>])
            /\ runs' = Append(runs, NewRun(promptBox))
            /\ UNCHANGED toasts
    /\ UNCHANGED <<drafts, others>>

\* the catch block of handleSubmit
GenerateCaught(r, message) ==
    /\ promptBox' = Commit(promptBox, [promptBox EXCEPT !.isGenerating = FALSE])
    /\ runs' = [runs EXCEPT ![r].pc = "returned", ![r].exit = "caught"]
    /\ toasts' = Append(toasts, ErrorToast(message))
    /\ UNCHANGED <<drafts, others>>

\* fetch resolves with a body
GenerateOk(r) ==
    /\ runs[r].pc = "fetch"
    /\ runs' = [runs EXCEPT ![r].pc = "read"]
    /\ UNCHANGED <<promptBox, drafts, toasts, others>>

\* fetch rejects, or resolves with !response.ok
GenerateFail(r) ==
    /\ runs[r].pc = "fetch"
    /\ GenerateCaught(r, "Server response was invalid.")

\* the server streams one more step
StepSent(r, status) ==
    /\ runs[r].pc = "read"
    /\ SumSteps(Len(runs)) < MaxEvents
    /\ runs' = [runs EXCEPT ![r].wire = Append(@, status),
                            ![r].sent = Append(@, status)]
    /\ UNCHANGED <<promptBox, drafts, toasts, others>>

\* one pass of the while loop: reader.read() hands over n whole records
ReadSteps(r, n) ==
    /\ runs[r].pc = "read"
    /\ n \in 1..Len(runs[r].wire)
    /\ \E st \in {ForSteps(LoopState(promptBox, runs[r]), r,
                           SubSeq(runs[r].wire, 1, n))} :
          /\ promptBox' = Commit(promptBox, st.box)
          /\ runs' = [runs EXCEPT
                        ![r].wire = SubSeq(@, n + 1, Len(@)),
                        ![r].handled = st.handled,
                        ![r].exit = st.exit,
                        ![r].created = st.created,
                        ![r].timer = st.timer,
                        ![r].pc = IF st.exit = "" THEN "read" ELSE "returned"]
          /\ toasts' = toasts \o st.toasts
    /\ UNCHANGED <<drafts, others>>

\* reader.read() reports done: the loop breaks and handleSubmit returns
StreamDone(r) ==
    /\ runs[r].pc = "read"
    /\ runs[r].wire = <<>>
    /\ runs' = [runs EXCEPT ![r].pc = "returned", ![r].exit = "done"]
    /\ UNCHANGED <<promptBox, drafts, toasts, others>>

\* reader.read() rejects
StreamThrow(r) ==
    /\ runs[r].pc = "read"
    /\ GenerateCaught(r, NetworkError)

\* setTimeout(() => handleReset(false), 1000) comes due
ResetTimer(r) ==
    /\ runs[r].timer = "pending"
    /\ promptBox' = Commit(promptBox, handleReset(promptBox, FALSE))
    /\ runs' = [runs EXCEPT
                  ![r].timer = "fired",
                  ![r].wiped = IF promptBox.mounted THEN Form(promptBox)
                               ELSE EmptyForm]
    /\ UNCHANGED <<drafts, toasts, others>>

\* 'Create New Report' in the generating view: handleReset(true)
CreateNewReport ==
    /\ promptBox.mounted
    /\ promptBox.isGenerating
    /\ promptBox' = Commit(promptBox, handleReset(promptBox, TRUE))
    /\ runs' = [r \in RunIds |->
                  [runs[r] EXCEPT
                     !.abandoned = @ \/ runs[r].pc # "returned",
                     !.overtaken = @ \/ runs[r].timer = "pending"]]
    /\ UNCHANGED <<drafts, toasts, others>>

\* onReportCreated of the dashboard page has called router.push: the page,
\* and PromptInputBox with it, is left
RouterPush ==
    /\ promptBox.mounted
    /\ \E r \in RunIds : runs[r].created > 0
    /\ promptBox' = [promptBox EXCEPT !.mounted = FALSE]
    /\ UNCHANGED <<runs, drafts, toasts, others>>

\* The report generator with its user, its server and its page.
BoxNext ==
    \/ \E field \in DOMAIN FieldValues :
          \E v \in FieldValues[field] : SetField(field, v)
    \/ DraftCreated
    \/ DraftFailed
    \/ Generate
    \/ \E r \in RunIds : GenerateOk(r)
    \/ \E r \in RunIds : GenerateFail(r)
    \/ \E r \in RunIds : \E status \in StepStatuses : StepSent(r, status)
    \/ \E r \in RunIds : \E n \in 1..Len(runs[r].wire) : ReadSteps(r, n)
    \/ \E r \in RunIds : StreamDone(r)
    \/ \E r \in RunIds : StreamThrow(r)
    \/ \E r \in RunIds : ResetTimer(r)
    \/ CreateNewReport
    \/ RouterPush

\* Scheduling: requests settle, records that arrived are read, the transport
\* ends or fails, and a timer that was set comes due. Nothing obliges the
\* user, the server's next step or the page.
BoxFairness ==
    /\ WF_vars(DraftCreated \/ DraftFailed)
    /\ WF_vars(\E r \in RunIds : GenerateOk(r) \/ GenerateFail(r))
    /\ WF_vars(\E r \in RunIds : \E n \in 1..Len(runs[r].wire) : ReadSteps(r, n))
    /\ WF_vars(\E r \in RunIds : StreamDone(r) \/ StreamThrow(r))
    /\ WF_vars(\E r \in RunIds : ResetTimer(r))

BoxSpec == Init /\ [][BoxNext]_vars /\ BoxFairness

\* ------------------------------------------------------------- properties
\* the message of a log with the given id
Msg(log, id) == log[findIndex(log, id)]

\* the assistant message of call i as the next render will show it
SettledBot(i) == Msg(Settled.messages, calls[i].botMessageId)

\* the placeholder a call starts from
Placeholder(i) ==
    [id |-> calls[i].botMessageId, sender |-> "bot", text |-> <<>>,
     isStreaming |-> TRUE]

Streaming(log) == {j \in 1..Len(log) : IsStreaming(log[j])}
WithSender(log, who) == {j \in 1..Len(log) : log[j].sender = who}

AllChunks(events) == \A k \in 1..Len(events) : events[k].type = "chunk"
ChunkTexts(events) ==
    Concat([k \in 1..Len(events) |->
              IF events[k].type = "chunk" THEN events[k].payload ELSE <<>>])

\* C1: when a stream of chunk events c1..cn has ended, the assistant
\* message's text is concat(c1..cn), however the body's bytes were cut into
\* reads.
C1_TextIsConcatOfChunks ==
    \A i \in CallIds :
        (calls[i].exit = "normal" /\ AllChunks(calls[i].sent))
            => SettledBot(i).text = ChunkTexts(calls[i].sent)

C1_Witness ==
    \E i \in CallIds :
        /\ calls[i].exit = "normal"
        /\ pendingUpdates = <<>>
        /\ calls[i].sent = <<[type |-> "chunk", payload |-> <<EAcute, LF>>],
                             [type |-> "chunk", payload |-> <<"a">>]>>
        /\ Msg(messages, calls[i].botMessageId).text = <<EAcute, LF, "a">>

\* the effect of one record on the assistant message and on the side list
Effect(st, ev) ==
    CASE ev.type = "chunk" ->
           [st EXCEPT !.msg = [@ EXCEPT !.text = @ \o ev.payload]]
      [] ev.type = "error" ->
           [st EXCEPT !.msg = [@ EXCEPT !.text = ev.payload, !.sender = "error"]]
      [] ev.type = "source" ->
           [st EXCEPT !.sourceList = Append(@, ev.payload)]
      [] OTHER -> st

RECURSIVE Effects(_, _)
Effects(st, events) ==
    IF events = <<>> THEN st
    ELSE Effects(Effect(st, Head(events)), Tail(events))

\* what the first k records of call i amount to
AfterRecords(i, k) ==
    Effects([msg |-> Placeholder(i), sourceList |-> <<>>],
            SubSeq(calls[i].sent, 1, k))

\* C2: while a stream is read, the conversation state is the effects of the
\* records handled so far, applied in the order received; what is rendered
\* is that for a prefix of them, whatever the grouping into renders.
C2_AppliedInOrder ==
    \A i \in CallIds :
        calls[i].pc = "read" =>
            /\ SettledBot(i) = AfterRecords(i, calls[i].handled).msg
            /\ calls[i].sourceList = AfterRecords(i, calls[i].handled).sourceList
            /\ \E k \in 0..calls[i].handled :
                  Msg(messages, calls[i].botMessageId) = AfterRecords(i, k).msg

C2_Witness ==
    \E i \in CallIds :
        /\ calls[i].pc = "read"
        /\ calls[i].handled = 2
        /\ calls[i].sent[1].type = "error"
        /\ calls[i].sent[2].type = "chunk"
        /\ Len(pendingUpdates) = 2

\* C3: at most one message of the log is streaming.
C3_AtMostOneStreaming ==
    /\ Cardinality(Streaming(messages)) <= 1
    /\ Cardinality(Streaming(Settled.messages)) <= 1

C3_Witness ==
    /\ Len(calls) = 2
    /\ Len(messages) >= 4
    /\ Cardinality(Streaming(messages)) = 1
    /\ "isStreaming" \in DOMAIN messages[2] /\ ~messages[2].isStreaming

\* a message whose streaming flag has been cleared
Cleared(log) ==
    {log[j].id : j \in {k \in 1..Len(log) :
                          "isStreaming" \in DOMAIN log[k] /\ ~log[k].isStreaming}}

\* C4: a message id whose streaming flag has been cleared is never seen
\* streaming again, and the flag of a call that has ended (after a complete
\* or error record, or a failure) is cleared.
C4_ClearedOnceForGood ==
    /\ [][\A j \in 1..Len(messages') :
             messages'[j].id \in Cleared(messages) => ~IsStreaming(messages'[j])]_vars
    /\ [](\A i \in CallIds :
             calls[i].pc = "returned" => ~IsStreaming(SettledBot(i)))

C4_Witness ==
    \E i \in CallIds :
        /\ calls[i].botMessageId \in Cleared(messages)
        /\ Len(calls) > i
        /\ \/ calls[i].exit = "caught"
           \/ \E k \in 1..Len(calls[i].sent) :
                 calls[i].sent[k].type \in {"complete", "error"}

\* C5: while isLoading is true no step starts a request or appends a user
\* or assistant message, and at most one activation of handleSubmit is
\* running.
C5_Serialized ==
    /\ [](Cardinality({i \in CallIds : Running(i)}) <= 1)
    /\ [][isLoading =>
            /\ Len(calls') = Len(calls)
            /\ Cardinality(WithSender(Settled.messages, "user"))'
                 = Cardinality(WithSender(Settled.messages, "user"))]_vars

C5_Witness ==
    /\ isLoading
    /\ trim(input) # <<>>
    /\ \E i \in CallIds : calls[i].pc = "read" /\ calls[i].wire # <<>>

\* C6: every started request is resolved: isLoading becomes false again with
\* every activation returned and no message streaming, whatever the
\* transport did.
C6_EveryRequestResolves ==
    [](isLoading =>
          <>(/\ ~isLoading
             /\ Streaming(messages) = {}
             /\ \A i \in CallIds : calls[i].pc = "returned"))

C6_Witness ==
    \E i \in CallIds :
        /\ calls[i].exit = "caught"
        /\ calls[i].error = SyntaxError
        /\ ~isLoading
        /\ Msg(messages, calls[i].botMessageId).sender = "error"
        /\ ~Msg(messages, calls[i].botMessageId).isStreaming

\* C7: no rendered message has role error and is still streaming: an error
\* record sets text and role and clears the flag in one effect.
C7_ErrorRecordClearsStreaming ==
    \A j \in 1..Len(messages) :
        messages[j].sender = "error" => ~IsStreaming(messages[j])

\* the first error record among the records call i has handled, 0 if none
RECURSIVE FirstErrorFrom(_, _)
FirstErrorFrom(i, k) ==
    IF k > calls[i].handled THEN 0
    ELSE IF calls[i].sent[k].type = "error" THEN k
    ELSE FirstErrorFrom(i, k + 1)

FirstError(i) == FirstErrorFrom(i, 1)

\* C8: once an error record has been handled, the message's text is that
\* record's payload, whatever the stream carries after it.
C8_ErrorRecordEndsStream ==
    \A i \in CallIds :
        FirstError(i) > 0
            => SettledBot(i).text = calls[i].sent[FirstError(i)].payload

\* the request failed at the fetch: bad status, no body, or a rejection
TransportFailed(i) ==
    /\ calls[i].exit = "caught"
    /\ calls[i].error \in {FailedResponse} \cup RejectCauses

CauseInLog(i) ==
    \E j \in 1..Len(Settled.messages) :
        Settled.messages[j].text = <<calls[i].error>>
CauseInToast(i) ==
    \E k \in 1..Len(toasts) : toasts[k].description = calls[i].error

\* the placeholder of call i ended as the one generic error message
GenericError(i) ==
    /\ SettledBot(i) = [id |-> calls[i].botMessageId, sender |-> "error",
                        text |-> errorMessage, isStreaming |-> FALSE]
    /\ Cardinality({j \in 1..Len(Settled.messages) :
                      Settled.messages[j].id = calls[i].botMessageId}) = 1

DroppedAfterChunk(i) ==
    /\ calls[i].exit = "caught"
    /\ calls[i].error = NetworkError
    /\ \E k \in 1..calls[i].handled : calls[i].sent[k].type = "chunk"

\* C10 as stated: after a connection drop the message keeps the text
\* accumulated so far and has role error.
C10_DropKeepsPartialText ==
    \A i \in CallIds :
        DroppedAfterChunk(i) =>
            /\ SettledBot(i).text = AfterRecords(i, calls[i].handled).msg.text
            /\ SettledBot(i).sender = "error"

\* C10 amended: after a connection drop the message's text is the generic
\* apology, its role is error, it is not streaming, and the activation has
\* returned, so nothing more is applied.
C10_DropShowsApology ==
    \A i \in CallIds :
        DroppedAfterChunk(i) =>
            /\ SettledBot(i) = [id |-> calls[i].botMessageId, sender |-> "error",
                                text |-> errorMessage, isStreaming |-> FALSE]
            /\ calls[i].pc = "returned"

C10_Witness ==
    \E i \in CallIds :
        /\ DroppedAfterChunk(i)
        /\ pendingUpdates = <<>>
        /\ Msg(messages, calls[i].botMessageId).text = errorMessage

\* a record that does not parse is among the records call i has handled
SawMalformed(i) ==
    \E k \in 1..calls[i].handled : calls[i].sent[k].type = "malformed"

\* C11: a record whose JSON does not parse is ignored: the request does not
\* end in the catch block because of it, and the assistant message is what
\* the valid records handled so far make it.
C11_MalformedIgnored ==
    \A i \in CallIds :
        SawMalformed(i) =>
            /\ calls[i].error # SyntaxError
            /\ SettledBot(i).text = AfterRecords(i, calls[i].handled).msg.text
            /\ SettledBot(i).sender = AfterRecords(i, calls[i].handled).msg.sender

\* C12: once the chat view is torn down its reader is cancelled: no
\* activation of handleSubmit is still awaiting its fetch or a read.
C12_TeardownCancelsReader ==
    ~mounted => \A i \in CallIds : ~Running(i)

\* the payloads of the source events among events, in order
IsSource(ev) == ev.type = "source"
SourcesOf(events) ==
    LET found == SelectSeq(events, IsSource)
    IN  [k \in 1..Len(found) |-> found[k].payload]

\* the calls whose stream ended normally after at least one source event
Grounded == {i \in CallIds : calls[i].exit = "normal"
                             /\ SourcesOf(calls[i].sent) # <<>>}

\* every system entry of the log sits immediately before the assistant
\* message of a stream that has ended normally, and holds its sources
SystemEntriesPlaced(log) ==
    \A j \in WithSender(log, "system") :
        /\ j < Len(log)
        /\ log[j].text = <<>>
        /\ \E i \in Grounded :
              /\ log[j + 1].id = calls[i].botMessageId
              /\ log[j].sources = SourcesOf(calls[i].sent)

\* C13: a stream that ended normally after k >= 1 source events has one
\* system entry, holding the k sources in arrival order, immediately before
\* its assistant message; there is no system entry for a stream still being
\* read, for one that failed, or for one without sources.
C13_SourcesFlushedAtEnd ==
    /\ SystemEntriesPlaced(messages)
    /\ SystemEntriesPlaced(Settled.messages)
    /\ Cardinality(WithSender(Settled.messages, "system")) = Cardinality(Grounded)
    /\ \A i \in Grounded :
          LET j == findIndex(Settled.messages, calls[i].botMessageId)
          IN  j > 1 /\ Settled.messages[j - 1].sender = "system"

C13_Witness ==
    /\ pendingUpdates = <<>>
    /\ Len(messages) = 3
    /\ messages[2].sender = "system"
    /\ messages[2].sources = <<[title |-> "V", url |-> "u"],
                               [title |-> "T", url |-> "u"]>>
    /\ messages[3].sender = "bot"
    /\ ~messages[3].isStreaming

\* C14: the sources attached to a message hold each url at most once.
C14_SourcesUniqueByUrl ==
    \A j \in 1..Len(Settled.messages) :
        "sources" \in DOMAIN Settled.messages[j] =>
            \A k, l \in 1..Len(Settled.messages[j].sources) :
                Settled.messages[j].sources[k].url
                    = Settled.messages[j].sources[l].url => k = l

\* where a url first occurs in a list that holds it
FirstIndex(list, url) ==
    CHOOSE k \in 1..Len(list) :
        /\ list[k].url = url
        /\ \A l \in 1..(k - 1) : list[l].url # url

\* C15: the report's unique sources hold each url of the analysis lists
\* exactly once, in order of first occurrence, and the entry kept for a url
\* is its first occurrence.
C15_UniqueKeepsFirst ==
    LET all == AllSources(parsedReport) IN
    /\ \A k \in 1..Len(all) :
          Cardinality({j \in 1..Len(uniqueSources) :
                         uniqueSources[j].url = all[k].url}) = 1
    /\ \A j \in 1..Len(uniqueSources) :
          /\ \E k \in 1..Len(all) : all[k].url = uniqueSources[j].url
          /\ uniqueSources[j] = all[FirstIndex(all, uniqueSources[j].url)]
    /\ \A j, l \in 1..Len(uniqueSources) :
          j < l => FirstIndex(all, uniqueSources[j].url)
                      < FirstIndex(all, uniqueSources[l].url)

C15_Witness ==
    /\ Cardinality(DOMAIN parsedReport) = 2
    /\ AllSources(parsedReport) = <<[title |-> "T", url |-> "u"],
                                    [title |-> "T", url |-> "v"],
                                    [title |-> "V", url |-> "u"]>>
    /\ uniqueSources = <<[title |-> "T", url |-> "u"],
                         [title |-> "T", url |-> "v"]>>

\* C16: deduplicating the unique sources again changes nothing.
C16_UniqueIdempotent ==
    UniqueSources(uniqueSources) = uniqueSources

C16_Witness ==
    /\ Len(AllSources(parsedReport)) = 3
    /\ uniqueSources = <<[title |-> "V", url |-> "u"]>>
    /\ UniqueSources(uniqueSources) = uniqueSources

\* chunk events followed by one complete event
ChunksThenComplete(events) ==
    /\ Len(events) >= 2
    /\ events[Len(events)].type = "complete"
    /\ AllChunks(SubSeq(events, 1, Len(events) - 1))

\* C17: after a stream of chunk events c1..cn, a complete event and the end
\* of the body, the assistant message has role bot, text concat(c1..cn) and
\* is not streaming.
C17_CompleteEndsAnswer ==
    \A i \in CallIds :
        (calls[i].exit = "normal" /\ ChunksThenComplete(calls[i].sent))
            => SettledBot(i) =
                  [id |-> calls[i].botMessageId, sender |-> "bot",
                   text |-> ChunkTexts(calls[i].sent), isStreaming |-> FALSE]

C17_Witness ==
    \E i \in CallIds :
        /\ calls[i].exit = "normal"
        /\ pendingUpdates = <<>>
        /\ calls[i].sent = <<[type |-> "chunk", payload |-> <<EAcute, LF>>],
                             [type |-> "complete"]>>
        /\ Msg(messages, calls[i].botMessageId) =
              [id |-> calls[i].botMessageId, sender |-> "bot",
               text |-> <<EAcute, LF>>, isStreaming |-> FALSE]

\* the text of the stream the server has written for call i
StreamText(i) ==
    Concat([k \in 1..Len(calls[i].sent) |-> RecordText(calls[i].sent[k])])

\* the text of the bytes call i has not read yet
Unread(i) == decode(calls[i].decoder, calls[i].wire).text

\* C18: however the stream is cut into reads, the segments the line buffer
\* has given the loop, followed by what its retained tail and the unread
\* text split into, are the segments of the whole stream text; at the end of
\* the body the buffer has given out every complete segment.
C18_BufferIgnoresReadBoundaries ==
    \A i \in CallIds :
        /\ calls[i].pc = "read" =>
              split(StreamText(i)) =
                  calls[i].lines \o split(calls[i].accumulatedData \o Unread(i))
        /\ calls[i].exit = "normal" =>
              calls[i].lines = Complete(split(StreamText(i)))

C18_Witness ==
    \E i \in CallIds :
        /\ calls[i].pc = "read"
        /\ Len(calls[i].lines) = 1
        /\ Len(calls[i].sent) = 2
        /\ calls[i].accumulatedData # <<>>
        /\ calls[i].accumulatedData[Len(calls[i].accumulatedData)] = LF
        /\ calls[i].wire # <<>>

\* call i has handled a complete or an error record
SawEnd(i) ==
    \E k \in 1..calls[i].handled :
        calls[i].sent[k].type \in {"complete", "error"}

\* C19: the assistant message of a request is streaming until a complete
\* record, an error record or the end of the stream is observed, and not
\* after: not while the request runs on behind such a record either.
C19_StreamingUntilEndObserved ==
    \A i \in CallIds :
        /\ (Running(i) /\ ~SawEnd(i)) => IsStreaming(SettledBot(i))
        /\ (SawEnd(i) \/ ~Running(i)) => ~IsStreaming(SettledBot(i))

IdsOf(log) == {log[j].id : j \in 1..Len(log)}
IsPrefix(a, b) == Len(a) <= Len(b) /\ SubSeq(b, 1, Len(a)) = a

\* C20 as stated: every step leaves each message of the log at its position,
\* adds new messages only after them, and changes the text of a message only
\* by extending the text of a streaming one.
C20_AppendOnly ==
    [][/\ Len(messages') >= Len(messages)
       /\ \A j \in 1..Len(messages) :
             /\ messages'[j].id = messages[j].id
             /\ messages'[j].text # messages[j].text =>
                   /\ IsStreaming(messages[j])
                   /\ IsPrefix(messages[j].text, messages'[j].text)]_vars

\* C20 amended: every step keeps each message of the log and their relative
\* order; only a streaming message changes; a new message is added at the
\* end of the log, or it is a system entry put immediately before an
\* assistant message that was already there.
C20_GrowsInOrder ==
    [][/\ \A j \in 1..Len(messages) : findIndex(messages', messages[j].id) > 0
       /\ \A j, k \in 1..Len(messages) :
             j < k => findIndex(messages', messages[j].id)
                         < findIndex(messages', messages[k].id)
       /\ \A j \in 1..Len(messages) :
             Msg(messages', messages[j].id) # messages[j]
                 => IsStreaming(messages[j])
       /\ \A j \in 1..Len(messages') :
             messages'[j].id \notin IdsOf(messages) =>
                \/ \A k \in j..Len(messages') :
                      messages'[k].id \notin IdsOf(messages)
                \/ /\ messages'[j].sender = "system"
                   /\ j < Len(messages')
                   /\ messages'[j + 1].id \in IdsOf(messages)
                   /\ messages'[j + 1].sender \in {"bot", "error"}]_vars

C20_Witness ==
    /\ Len(messages) = 5
    /\ messages[2].sender = "system"
    /\ messages[3].sender = "error"
    /\ messages[5].sender = "bot"
    /\ IsStreaming(messages[5])

\* the message ids the queued updaters address
Addressed ==
    {pendingUpdates[k].id :
        k \in {l \in 1..Len(pendingUpdates) : "id" \in DOMAIN pendingUpdates[l]}}

\* C21: the events of a request change only that request's assistant
\* message: the queued updaters address the assistant message of the latest
\* request only, and a step changes no message of the log but one that a
\* queued updater addresses.
C21_OnlyOwnMessageChanges ==
    /\ [](\A id \in Addressed : id = calls[Len(calls)].botMessageId)
    /\ [][\A j \in 1..Len(messages) :
             /\ findIndex(messages', messages[j].id) > 0
             /\ Msg(messages', messages[j].id) # messages[j]
                   => messages[j].id \in Addressed]_vars

C21_Witness ==
    /\ Len(calls) = 2
    /\ calls[2].handled = 1
    /\ pendingUpdates = <<>>
    /\ Msg(messages, calls[1].botMessageId).text = <<"E">>
    /\ Msg(messages, calls[1].botMessageId).sender = "error"
    /\ Msg(messages, calls[2].botMessageId).text = <<"a">>
    /\ Msg(messages, calls[2].botMessageId).sender = "bot"

\* the user and assistant messages of a log
Authored(log) == {j \in 1..Len(log) : log[j].sender # "system"}

\* C22: a step that starts a request is taken with non-blank input while not
\* loading and adds, after everything set before it, the user message with
\* the submitted text and then the streaming placeholder with empty text;
\* with blank input or while loading no step starts a request or adds a
\* user or assistant message.
C22_SubmitAppendsTwo ==
    [][/\ Len(calls') # Len(calls) =>
             /\ trim(input) # <<>> /\ ~isLoading
             /\ Len(calls') = Len(calls) + 1
             /\ messages' = Settled.messages \o
                   <<[id |-> UserId(now), sender |-> "user", text |-> input],
                     [id |-> BotId(now), sender |-> "bot", text |-> <<>>,
                      isStreaming |-> TRUE]>>
       /\ (trim(input) = <<>> \/ isLoading) =>
             /\ Len(calls') = Len(calls)
             /\ Cardinality(Authored(Settled.messages'))
                   = Cardinality(Authored(Settled.messages))]_vars

C22_Witness ==
    /\ Len(calls) = 2
    /\ calls[2].pc = "fetch"
    /\ Len(messages) = 4
    /\ messages[3] = [id |-> UserId(2), sender |-> "user", text |-> <<"q">>]
    /\ messages[4] = [id |-> BotId(2), sender |-> "bot", text |-> <<>>,
                      isStreaming |-> TRUE]

\* every record the server wrote for call i is of one of the types
OnlyTypes(i, types) ==
    \A k \in 1..Len(calls[i].sent) : calls[i].sent[k].type \in types

\* C23: a complete segment without the 'data: ' marker is discarded: it
\* raises no error and leaves the assistant message what the chunks handled
\* before and after it make it.
C23_UnmarkedSegmentDiscarded ==
    \A i \in CallIds :
        OnlyTypes(i, {"comment", "chunk"}) =>
            /\ calls[i].exit # "caught"
            /\ SettledBot(i).sender = "bot"
            /\ SettledBot(i).text =
                  ChunkTexts(SubSeq(calls[i].sent, 1, calls[i].handled))

C23_Witness ==
    \E i \in CallIds :
        /\ calls[i].exit = "normal"
        /\ pendingUpdates = <<>>
        /\ calls[i].sent = <<[type |-> "comment"],
                             [type |-> "chunk", payload |-> <<"a">>]>>
        /\ calls[i].handled = 2
        /\ Msg(messages, calls[i].botMessageId).text = <<"a">>

\* the last record of call i lacks its delimiter, the ones before are whole
EndsUnterminated(i) ==
    /\ calls[i].sent # <<>>
    /\ calls[i].sent[Len(calls[i].sent)].type = "unterminated"
    /\ \A k \in 1..(Len(calls[i].sent) - 1) :
          calls[i].sent[k].type \in {"comment", "chunk"}

\* C24: when the body ends with a record that lacks its delimiter, that
\* record is neither parsed nor applied and no error is raised: the request
\* ends normally and the assistant message is what the records before it
\* make it.
C24_UnterminatedTailDiscarded ==
    \A i \in CallIds :
        EndsUnterminated(i) =>
            /\ calls[i].exit # "caught"
            /\ calls[i].handled < Len(calls[i].sent)
            /\ SettledBot(i).sender = "bot"
            /\ calls[i].pc = "returned" =>
                  SettledBot(i).text =
                      ChunkTexts(SubSeq(calls[i].sent, 1, Len(calls[i].sent) - 1))

C24_Witness ==
    \E i \in CallIds :
        /\ calls[i].exit = "normal"
        /\ pendingUpdates = <<>>
        /\ calls[i].sent = <<[type |-> "chunk", payload |-> <<"a">>],
                             [type |-> "unterminated", payload |-> <<"a">>]>>
        /\ calls[i].handled = 1
        /\ Msg(messages, calls[i].botMessageId) =
              [id |-> calls[i].botMessageId, sender |-> "bot",
               text |-> <<"a">>, isStreaming |-> FALSE]

\* A generation under way: the draft session exists, both names are entered
\* and handleSubmit awaits its fetch.
StreamInit ==
    LET form == [BoxInit EXCEPT !.draftReportId = 1,
                                !.isCreatingDraft = FALSE,
                                !.acquirer = <<"A", "c">>,
                                !.target = <<"T", "g">>]
    IN  /\ messages = <<>>
        /\ input = <<>>
        /\ isLoading = FALSE
        /\ pendingUpdates = <<>>
        /\ calls = <<>>
        /\ toasts = <<>>
        /\ now = 1
        /\ mounted = TRUE
        /\ parsedReport = NoLists
        /\ uniqueSources = <<>>
        /\ AuthInit
        /\ promptBox = [form EXCEPT !.isGenerating = TRUE]
        /\ runs = <<NewRun(form)>>
        /\ drafts = 1

\* That generation against a server that streams any steps, also after a
\* complete or error step, and a transport that can end or fail anywhere.
StreamNext ==
    \/ \E r \in RunIds : GenerateOk(r)
    \/ \E r \in RunIds : GenerateFail(r)
    \/ \E r \in RunIds : \E status \in StepStatuses : StepSent(r, status)
    \/ \E r \in RunIds : \E n \in 1..Len(runs[r].wire) : ReadSteps(r, n)
    \/ \E r \in RunIds : StreamDone(r)
    \/ \E r \in RunIds : StreamThrow(r)
    \/ \E r \in RunIds : ResetTimer(r)
    \/ CreateNewReport
    \/ DraftCreated
    \/ RouterPush

StreamSpec == StreamInit /\ [][StreamNext]_vars

\* ------------------------------------------- properties: PromptInputBox
\* the steps the generating view lists
Listed == promptBox.logSteps \o promptBox.sources

\* the steps of run r among those listed
ListedOf(r) == {k \in 1..Len(Listed) : Listed[k].id[1] = r}

\* the transport of some generation has ended, whichever way
SomeRunEnded == \E r \in RunIds : runs[r].pc = "returned"

\* C25: every generation leaves the generating state without user action:
\* once the transport of a generation has ended, failed or delivered a
\* complete or error step, isGenerating becomes false (as long as the
\* component is on the page), also when the stream ended without a complete
\* or error step.
C25_GenerationEnds ==
    (SomeRunEnded /\ promptBox.mounted /\ promptBox.isGenerating)
        ~> (~promptBox.isGenerating \/ ~promptBox.mounted)

\* C26: after 'Create New Report' abandoned a running generation, no step
\* of the abandoned stream is listed any more, and the abandoned stream
\* triggers neither onReportCreated nor a timer nor a reset.
C26_AbandonedStreamIsSilent ==
    \A r \in RunIds :
        runs[r].abandoned =>
            /\ ListedOf(r) = {}
            /\ runs[r].created = 0
            /\ runs[r].timer = "none"
            /\ runs[r].exit \notin {"complete", "error"}

\* C27: the reset scheduled after a complete step clears no input of a
\* later session: when the user has reset by hand before the timer fires,
\* the timer finds nothing in the form to clear.
C27_TimerSparesLaterInput ==
    \A r \in RunIds :
        (runs[r].timer = "fired" /\ runs[r].overtaken) =>
            runs[r].wiped = EmptyForm

\* C29: a generation request is never sent for the draft id of an earlier
\* generation that completed.
C29_FreshDraftPerGeneration ==
    \A r \in RunIds : \A q \in 1..(r - 1) :
        runs[q].exit = "complete" =>
            runs[r].draftReportId # runs[q].draftReportId

\* the position of the first complete or error step among statuses, 0 if none
RECURSIVE FirstTerminalFrom(_, _)
FirstTerminalFrom(statuses, k) ==
    IF k > Len(statuses) THEN 0
    ELSE IF statuses[k] \in {"complete", "error"} THEN k
    ELSE FirstTerminalFrom(statuses, k + 1)
FirstTerminal(statuses) == FirstTerminalFrom(statuses, 1)

LogsOut(i) ==
    /\ fetches'[i].loggedOut
    /\ i \in 1..Len(fetches) => ~fetches[i].loggedOut

====
